---- MODULE Spec2Model ----
(***************************************************************************)
(* loam: an append-only chunk file (Writer / Reader), and rosewood: a      *)
(* bulk-loaded on-disk R-tree stored in a loam file (BulkWriter / RTree).  *)
(*                                                                         *)
(* Spec      the chunk file at byte level: Writer::new / push /            *)
(*           checkpoint, Reader::new / root / lookup, and a single-bit     *)
(*           corruption of the stored file.                                *)
(* SpecTree  the R-tree: BulkWriter::new / push / finish / cancel and the  *)
(*           RTreeQuery iterator.                                          *)
(* SpecBuild the files of a bulk build: target paths of every extension,   *)
(*           files left by earlier builds, I/O errors during finish.       *)
(* SpecShape builds of up to 43 geometries, for trees of height 3.         *)
(* SpecPlan  the size arithmetic of a bulk build (Node::height,            *)
(*           root_groups, partition_sz and the partition of build_tree)    *)
(*           applied to element counts up to 6^11.                         *)
(***************************************************************************)
EXTENDS Integers, Sequences, FiniteSets, TLC

VARIABLES
    crc,        \* the Reader is built with feature "crc" (common.rs cfg)
    file,       \* the chunk file on disk: [exists, bytes]
    wopen,      \* a Writer holds the file open
    wres,       \* result of the last Writer operation
    created,    \* the last successful Writer::new wrote the header itself
    pushed,     \* the chunks appended so far: <<[id, data, pre, cp, first]>>
    lastop,     \* last successful file operation: [op, root]
    reader,     \* the Reader: [open, mmap]
    rres,       \* result of the last Reader operation
    flip,       \* the single-bit corruption applied to the file, if any
    nops,       \* number of Writer operations so far
    bw,         \* BulkWriter: [state, path, elems, nodes, geoms (what was
                \*   pushed), old (the target as BulkWriter::new found it)]
    fs,         \* the files <stem>.loam, <stem>.tmp and <stem>.tmp2
    bres,       \* result of the last BulkWriter operation
    q,          \* RTreeQuery: [state, bbox, work, error, out]
    plan        \* the size arithmetic of a build of plan.n elements

chunkVars == <<crc, file, wopen, wres, created, pushed, lastop, reader, rres, flip, nops>>
treeVars == <<bw, fs, bres, q, plan>>
vars == <<crc, file, wopen, wres, created, pushed, lastop, reader, rres, flip, nops,
          bw, fs, bres, q, plan>>

(***************************************************************************)
(* Bounds of the model                                                     *)
(***************************************************************************)
MaxGeoms == 7        \* geometries pushed per build (height 2 from 7 on)
MaxOps == 3          \* Writer operations explored per file
MaxFlipLen == 30     \* corruption is explored on files up to this length
BigLen == 251        \* length of the long payload (size varint of 3 bytes)
MaxPlan == 260       \* element counts 1..MaxPlan are planned (heights 1 to 4)
MaxShape == 43       \* geometries per build in SpecShape (height 3 from 37 on)
MaxNones == 2        \* calls of a query's next that return None

(***************************************************************************)
(* The state before anything is built or queried                           *)
(***************************************************************************)
\* BBox::default: the box of no points
EmptyBBox == [empty |-> TRUE, x0 |-> 0, y0 |-> 0, x1 |-> 0, y1 |-> 0]

\* a path with no file
NoFile == [exists |-> FALSE, chunks |-> <<>>, len |-> 0]

\* a path is <stem>.<ext> with one stem throughout, so its extension names
\* it: "loam" stands for every extension other than "tmp" and "tmp2"
Exts == {"loam", "tmp", "tmp2"}

\* no file at any of the paths
FsInit == [loam |-> NoFile, tmp |-> NoFile, tmp2 |-> NoFile]

\* no BulkWriter yet; geoms remembers the geometries pushed, old the file
\* at the target path when the build began
BwIdle == [state |-> "none", path |-> "loam", elems |-> <<>>, nodes |-> <<>>,
           geoms |-> <<>>, old |-> NoFile]

\* no query yet; out is what the iterator has yielded, nones how often it
\* has returned None
QIdle == [state |-> "none", bbox |-> EmptyBBox, work |-> <<>>, error |-> "none",
          out |-> <<>>, nones |-> 0]

\* nothing planned
PlanIdle == [phase |-> "none", n |-> 0, height |-> 0, groups |-> 0, psz |-> 0,
             children |-> <<>>, panic |-> FALSE, odd_axis |-> "X", axes |-> <<>>]

(***************************************************************************)
(* Bytes, little-endian words, exclusive-or                                *)
(***************************************************************************)

Byte == 0..255

RECURSIVE BitXor(_, _, _)
BitXor(a, b, n) ==
    IF n = 0 THEN 0
    ELSE (((a % 2) + (b % 2)) % 2) + 2 * BitXor(a \div 2, b \div 2, n - 1)

\* exclusive-or of two bytes, from the table of its 4-bit halves
XorNibble == [a \in 0..15 |-> [b \in 0..15 |-> BitXor(a, b, 4)]]

XorByte ==
    [a \in Byte |-> [b \in Byte |->
        XorNibble[a % 16][b % 16] + 16 * XorNibble[a \div 16][b \div 16]]]

\* a 32-bit word is kept as its four little-endian bytes
Xor32(x, y) ==
    <<XorByte[x[1]][y[1]], XorByte[x[2]][y[2]], XorByte[x[3]][y[3]], XorByte[x[4]][y[4]]>>

Shr1(x) ==
    <<(x[1] \div 2) + 128 * (x[2] % 2), (x[2] \div 2) + 128 * (x[3] % 2),
      (x[3] \div 2) + 128 * (x[4] % 2), x[4] \div 2>>

Shr8(x) == <<x[2], x[3], x[4], 0>>

(***************************************************************************)
(* CRC-32 (IEEE, reflected), as crc32fast::Hasher computes it              *)
(***************************************************************************)
CrcPoly == <<32, 131, 184, 237>>        \* 0xEDB88320, little-endian bytes

RECURSIVE CrcBits(_, _)
CrcBits(x, k) ==
    IF k = 0 THEN x
    ELSE CrcBits(IF x[1] % 2 = 1 THEN Xor32(Shr1(x), CrcPoly) ELSE Shr1(x), k - 1)

CrcTable == [b \in Byte |-> CrcBits(<<b, 0, 0, 0>>, 8)]

CrcUpdate(reg, b) == Xor32(CrcTable[XorByte[reg[1]][b]], Shr8(reg))

\* update(buf[lo..hi]) on the register reg, bytes in order.  The range is
\* halved and the register is evaluated on entry (Len(reg)), which keeps
\* the evaluation depth logarithmic in the length of the buffer.
RECURSIVE CrcRun(_, _, _, _)
CrcRun(reg, buf, lo, hi) ==
    IF Len(reg) # 4 \/ lo > hi THEN reg
    ELSE IF lo = hi THEN CrcUpdate(reg, buf[lo])
    ELSE LET mid == (lo + hi) \div 2
         IN  CrcRun(CrcRun(reg, buf, lo, mid), buf, mid + 1, hi)

\* Hasher::new(); update(buf); finalize(); to_le_bytes()
Crc32Le(buf) ==
    Xor32(CrcRun(<<255, 255, 255, 255>>, buf, 1, Len(buf)), <<255, 255, 255, 255>>)

(***************************************************************************)
(* The codec: bincode::DefaultOptions (varint integers, little-endian)     *)
(***************************************************************************)
HEADER == <<108, 111, 97, 109, 48, 48, 48, 48>>       \* b"loam0000"

\* a value too large for the model's integers (>= 2^31)
Huge == -1

RECURSIVE LeBytes(_, _)
LeBytes(v, k) == IF k = 0 THEN <<>> ELSE <<v % 256>> \o LeBytes(v \div 256, k - 1)

RECURSIVE LeValue(_, _, _)
LeValue(buf, pos, k) ==
    IF k = 0 THEN 0
    ELSE LET hi == LeValue(buf, pos + 1, k - 1)
         IN  IF hi = Huge \/ hi >= 8388608 THEN Huge ELSE buf[pos] + 256 * hi

\* serialize_into(&mut buf, &len) for a u64 / usize
VarintEnc(v) ==
    IF v < 251 THEN <<v>>
    ELSE IF v < 65536 THEN <<251>> \o LeBytes(v, 2)
    ELSE <<252>> \o LeBytes(v, 4)

\* serialized_size(&len)
VarintSize(v) == IF v = Huge THEN 9 ELSE Len(VarintEnc(v))

\* deserialize::<u64>(&mmap[pos - 1 ..]); pos is 1-based.  val = Huge
\* stands for a decoded value of 2^31 or more.
VarintDec(buf, pos) ==
    LET avail == Len(buf) - pos + 1
        tag   == buf[pos]
        width == CASE tag = 251 -> 2 [] tag = 252 -> 4 [] tag = 253 -> 8 [] OTHER -> 0
    IN  IF avail < 1 THEN [ok |-> FALSE, val |-> 0, size |-> 0]
        ELSE IF tag <= 250 THEN [ok |-> TRUE, val |-> tag, size |-> 1]
        ELSE IF tag >= 254 THEN [ok |-> FALSE, val |-> 0, size |-> 0]
        ELSE IF avail < 1 + width THEN [ok |-> FALSE, val |-> 0, size |-> 0]
        ELSE [ok |-> TRUE, val |-> LeValue(buf, pos + 1, width), size |-> 1 + width]

\* Id::to_le_bytes
ToLeBytes(id) == LeBytes(id, 8)

\* Id::from_le_bytes (Huge for an Id of 2^31 or more)
FromLeBytes(bytes) == LeValue(bytes, 1, 8)

\* Id::to_usize of a value beyond the model's integers: larger than any file
IsHugeId(id) == id = Huge

(***************************************************************************)
(* Writer (loam/src/writer.rs)                                             *)
(***************************************************************************)
\* the bytes Writer::push appends for a payload whose serialization is data
PushBytes(data) ==
    LET buf == VarintEnc(Len(data)) \o data
    IN  buf \o Crc32Le(buf)

\* the Id Writer::push returns: the file length before the append
\* a faulty variant of PushId: every chunk gets the offset after the header
PushIdAtHeader(bytes) == Len(HEADER)

PushId(bytes) == Len(bytes)

\* Writer::new
\* an open that rewrites the file as a new one
OpenedBytesTruncated(bytes) == HEADER

\* the bytes of the file once Writer::new has opened it: the header goes
\* into an empty file, nothing is written to any other
OpenedBytes(bytes) == IF Len(bytes) = 0 THEN HEADER ELSE bytes

WriterNew ==
    /\ ~wopen /\ ~reader.open /\ ~flip.done
    /\ nops < MaxOps
    /\ nops' = nops + 1
    /\ LET len == IF file.exists THEN Len(file.bytes) ELSE 0
       IN  IF len > 0 /\ len < 8
           THEN /\ wres' = "InvalidHeader"
                /\ UNCHANGED <<file, wopen, created, lastop>>
           ELSE /\ file' = [exists |-> TRUE, bytes |-> OpenedBytes(file.bytes)]
                /\ wopen' = TRUE
                /\ created' = (len = 0)
                /\ wres' = "Ok"
                /\ lastop' = [op |-> "new", root |-> 0]
    /\ UNCHANGED <<crc, pushed, reader, rres, flip>>
    /\ UNCHANGED treeVars

\* Writer::push(&data), data given by its serialization
Push(data) ==
    /\ wopen /\ ~reader.open /\ ~flip.done
    /\ nops < MaxOps
    /\ nops' = nops + 1
    /\ IF PushId(file.bytes) = 0
       THEN /\ wres' = "InvalidHeader"
            /\ UNCHANGED <<file, pushed, lastop>>
       ELSE /\ file' = [file EXCEPT !.bytes = @ \o PushBytes(data)]
            /\ pushed' = Append(pushed, [id |-> PushId(file.bytes), data |-> data,
                                         pre |-> Len(file.bytes), cp |-> FALSE,
                                         first |-> created /\ lastop.op = "new"])
            /\ lastop' = [op |-> "push", root |-> 0]
            /\ wres' = "Ok"
    /\ UNCHANGED <<crc, wopen, created, reader, rres, flip>>
    /\ UNCHANGED treeVars

\* Writer::checkpoint(id): push(&id.to_le_bytes()), then sync_data
Checkpoint(id) ==
    /\ wopen /\ ~reader.open /\ ~flip.done
    /\ nops < MaxOps
    /\ nops' = nops + 1
    /\ IF PushId(file.bytes) = 0
       THEN /\ wres' = "InvalidHeader"
            /\ UNCHANGED <<file, pushed, lastop>>
       ELSE /\ file' = [file EXCEPT !.bytes = @ \o PushBytes(ToLeBytes(id))]
            /\ pushed' = Append(pushed, [id |-> PushId(file.bytes),
                                         data |-> ToLeBytes(id),
                                         pre |-> Len(file.bytes), cp |-> TRUE,
                                         first |-> created /\ lastop.op = "new"])
            /\ lastop' = [op |-> "checkpoint", root |-> id]
            /\ wres' = "Ok"
    /\ UNCHANGED <<crc, wopen, created, reader, rres, flip>>
    /\ UNCHANGED treeVars

\* the Writer is dropped; the file stays as written
WriterDrop ==
    /\ wopen /\ ~reader.open /\ ~flip.done
    /\ wopen' = FALSE
    /\ UNCHANGED <<crc, file, wres, created, pushed, lastop, reader, rres, flip, nops>>
    /\ UNCHANGED treeVars

(***************************************************************************)
(* Reader (loam/src/reader.rs)                                             *)
(***************************************************************************)
CRC_SZ == IF crc THEN 4 ELSE 0

CHECKPOINT_SZ == 9 + CRC_SZ

Res(kind, val) == [kind |-> kind, val |-> val]

\* the #[cfg(feature = "crc")] block of Reader::lookup: "pass", or how it ends
CrcCheck(mmap, base, dlen) ==
    LET len    == Len(mmap)
        crcoff == base + dlen + 1
    IN  IF dlen = Huge \/ crcoff > len THEN "Panic"          \* &self.mmap[base..crcoff]
        ELSE IF crcoff + 4 > len THEN "Panic"                \* &self.mmap[crcoff..crcoff + CRC_SZ]
        ELSE IF Crc32Le(SubSeq(mmap, base + 1, crcoff))
                  # SubSeq(mmap, crcoff + 1, crcoff + 4) THEN "InvalidCrc"
        ELSE "pass"

\* Reader::lookup::<[u8; n]>(id) on a map of the bytes mmap
\* a faulty variant of InRange: the end of the file counts as inside
InRangeInclusive(mmap, id) ==
    /\ Len(mmap) >= Len(HEADER) + CHECKPOINT_SZ
    /\ ~IsHugeId(id) /\ id >= Len(HEADER) /\ id <= Len(mmap)

\* the range test of Reader::lookup
InRange(mmap, id) ==
    /\ Len(mmap) >= Len(HEADER) + CHECKPOINT_SZ
    /\ ~IsHugeId(id) /\ id >= Len(HEADER) /\ id < Len(mmap)

Lookup(mmap, id, n) ==
    LET len == Len(mmap) IN
    IF InRange(mmap, id)
    THEN LET d == VarintDec(mmap, id + 1)
             c == IF crc THEN CrcCheck(mmap, id, d.val) ELSE "pass"
         IN  IF ~d.ok THEN Res("Bincode", <<>>)
             ELSE IF c # "pass" THEN Res(c, <<>>)
             ELSE IF id + d.size + n > len THEN Res("Bincode", <<>>)
             ELSE Res("Ok", SubSeq(mmap, id + d.size + 1, id + d.size + n))
    ELSE Res("InvalidId", <<>>)

\* Reader::root
Root(mmap) ==
    LET len == Len(mmap) IN
    IF len >= Len(HEADER) + CHECKPOINT_SZ
    THEN LET r == Lookup(mmap, len - CHECKPOINT_SZ, 8)
         IN  IF r.kind = "Ok" THEN Res("Ok", FromLeBytes(r.val)) ELSE r
    ELSE Res("InvalidCheckpoint", <<>>)

\* the header test of Reader::new
\* a faulty variant of HeaderOk: the magic bytes are not compared
HeaderOkLengthOnly(mmap) == Len(mmap) >= Len(HEADER)

HeaderOk(mmap) ==
    Len(mmap) >= Len(HEADER) /\ HEADER = SubSeq(mmap, 1, Len(HEADER))

\* Reader::new: File::open, Mmap::map, header check.  rres.seen is the file
\* as the call found it.
ReaderNew ==
    /\ ~reader.open
    /\ IF ~file.exists
       THEN /\ rres' = [op |-> "new", kind |-> "Io", seen |-> file]
            /\ UNCHANGED reader
       ELSE IF HeaderOk(file.bytes)
       THEN /\ reader' = [open |-> TRUE, mmap |-> file.bytes]
            /\ rres' = [op |-> "new", kind |-> "Ok", seen |-> file]
       ELSE /\ rres' = [op |-> "new", kind |-> "InvalidHeader", seen |-> file]
            /\ UNCHANGED reader
    /\ UNCHANGED <<crc, file, wopen, wres, created, pushed, lastop, flip, nops>>
    /\ UNCHANGED treeVars

\* Reader operations are functions of the mapped bytes alone: each is taken
\* once, on the Reader as opened
ReaderRoot ==
    /\ reader.open /\ rres.op = "new"
    /\ rres' = [op |-> "root"] @@ Root(reader.mmap)
    /\ UNCHANGED <<crc, file, wopen, wres, created, pushed, lastop, reader, flip, nops>>
    /\ UNCHANGED treeVars

ReaderLookup(id, n) ==
    /\ reader.open /\ rres.op = "new"
    /\ rres' = [op |-> "lookup", id |-> id, n |-> n] @@ Lookup(reader.mmap, id, n)
    /\ UNCHANGED <<crc, file, wopen, wres, created, pushed, lastop, reader, flip, nops>>
    /\ UNCHANGED treeVars

(***************************************************************************)
(* Environment: inputs, and corruption of one bit of the stored file       *)
(***************************************************************************)
Big == SubSeq([i \in 1..BigLen |-> i % 256], 1, BigLen)

Data == {<<42>>, <<82, 111, 111, 116>>, Big}

Roots == {0} \cup {pushed[i].id : i \in {j \in 1..Len(pushed) : ~pushed[j].cp}}

InitFiles ==
    { [exists |-> FALSE, bytes |-> <<>>],
      [exists |-> TRUE,  bytes |-> <<>>],
      [exists |-> TRUE,  bytes |-> SubSeq(HEADER, 1, 7)],
      [exists |-> TRUE,  bytes |-> <<108, 111, 97, 109, 48, 48, 48, 49>>] }

LookupIds ==
    LET len == Len(reader.mmap)
    IN  ({0, 7, 8, 9, len - CHECKPOINT_SZ - 1, len - CHECKPOINT_SZ,
          len - CHECKPOINT_SZ + 1, len - 1, len, len + 1}
         \cup {pushed[i].id : i \in 1..Len(pushed)}) \cap Nat

LookupSizes == {Len(d) : d \in Data} \cup {8}

\* one bit of a chunk byte flips in a checkpointed file at rest (no Writer,
\* no Reader)
FlipBit(pos, bit) ==
    /\ file.exists /\ ~wopen /\ ~reader.open /\ ~flip.done
    /\ lastop.op = "checkpoint"
    /\ Len(file.bytes) <= MaxFlipLen
    /\ pos \in (Len(HEADER) + 1)..Len(file.bytes)
    /\ file' = [file EXCEPT !.bytes[pos] = BitXor(@, 2 ^ bit, 8)]
    /\ flip' = [done |-> TRUE, pos |-> pos, bit |-> bit]
    /\ UNCHANGED <<crc, wopen, wres, created, pushed, lastop, reader, rres, nops>>
    /\ UNCHANGED treeVars

Init ==
    /\ crc \in BOOLEAN
    /\ file \in InitFiles
    /\ wopen = FALSE /\ wres = "none" /\ created = FALSE /\ pushed = <<>>
    /\ lastop = [op |-> "none", root |-> 0]
    /\ reader = [open |-> FALSE, mmap |-> <<>>]
    /\ rres = [op |-> "none"]
    /\ flip = [done |-> FALSE]
    /\ nops = 0
    /\ bw = BwIdle
    /\ fs = FsInit
    /\ bres = [op |-> "none", kind |-> "Ok"]
    /\ q = QIdle
    /\ plan = PlanIdle

Next ==
    \/ WriterNew
    \/ \E d \in Data : Push(d)
    \/ \E id \in Roots : Checkpoint(id)
    \/ WriterDrop
    \/ ReaderNew
    \/ ReaderRoot
    \/ \E id \in LookupIds, n \in LookupSizes : ReaderLookup(id, n)
    \/ \E pos \in 1..MaxFlipLen, bit \in 0..7 : FlipBit(pos, bit)

Spec == Init /\ [][Next]_vars

(***************************************************************************)
(* R-tree node arithmetic (rosewood/src/node.rs)                           *)
(***************************************************************************)
M_NODE == 6

Min(a, b) == IF a <= b THEN a ELSE b
Max(a, b) == IF a >= b THEN a ELSE b

RECURSIVE Pow(_, _)
Pow(b, e) == IF e = 0 THEN 1 ELSE b * Pow(b, e - 1)

\* number of binary digits of v
RECURSIVE BitLen(_)
BitLen(v) == IF v = 0 THEN 0 ELSE 1 + BitLen(v \div 2)

\* usize as f32: a whole number keeps its 24 leading binary digits, the
\* rest is rounded to nearest, ties to the even mantissa
F32(a) ==
    LET bl == BitLen(a) IN
    IF bl <= 24 THEN a
    ELSE LET ulp == Pow(2, bl - 24)
             r   == a % ulp
             lo  == a - r
         IN  IF 2 * r < ulp THEN lo
             ELSE IF 2 * r > ulp THEN lo + ulp
             ELSE IF (lo \div ulp) % 2 = 0 THEN lo ELSE lo + ulp

\* (a as f32 / b as f32).ceil() as usize: both operands are converted, the
\* quotient is rounded to an f32 (nearest, ties to even) and then raised to
\* the next whole number
CeilDiv(a, b) ==
    LET x   == F32(a)
        y   == F32(b)
        fl  == x \div y
        rem == x % y
        bl  == BitLen(fl)
    IN  IF rem = 0 THEN fl
        ELSE IF fl = 0 THEN 1
        ELSE IF bl <= 23
        THEN \* the quotient rounds down to fl when its fraction is at most
             \* half a unit in the last place
             IF rem <= y \div Pow(2, 25 - bl) THEN fl ELSE fl + 1
        ELSE IF bl = 24
        THEN IF rem < y - rem THEN fl
             ELSE IF rem > y - rem THEN fl + 1
             ELSE fl + (fl % 2)
        ELSE LET ulp == Pow(2, bl - 24)
                 r   == fl % ulp
             IN  IF r < ulp \div 2 THEN fl - r ELSE fl - r + ulp

\* a loop that stops only when the capacity exceeds the count
RECURSIVE HeightFromAbove(_, _, _)
HeightFromAbove(n_elem, height, capacity) ==
    IF capacity > n_elem THEN height
    ELSE HeightFromAbove(n_elem, height + 1, capacity * M_NODE)

\* Node::height: the loop over capacity = M_NODE, M_NODE^2, ...
RECURSIVE HeightFrom(_, _, _)
HeightFrom(n_elem, height, capacity) ==
    IF capacity >= n_elem THEN height
    ELSE HeightFrom(n_elem, height + 1, capacity * M_NODE)

Height(n_elem) == HeightFrom(n_elem, 1, M_NODE)

\* f32::sqrt().ceil() of a small whole number
CeilSqrt(k) == CHOOSE g \in 0..k : g * g >= k /\ (g = 0 \/ (g - 1) * (g - 1) < k)

\* Node::root_groups
RootGroups(n_elem) ==
    LET n_subtree == Pow(M_NODE, Height(n_elem) - 1)
    IN  CeilSqrt(CeilDiv(n_elem, n_subtree))

\* Node::partition_sz
PartitionSz(height) == Pow(M_NODE, height - 1)

(***************************************************************************)
(* Bounding boxes (pointy::BBox as node.rs and gis.rs use it)              *)
(***************************************************************************)
BBoxOf(x0, y0, x1, y1) == [empty |-> FALSE, x0 |-> x0, y0 |-> y0, x1 |-> x1, y1 |-> y1]

\* BBox::extend with another box
Extend(a, b) ==
    IF a.empty THEN b
    ELSE IF b.empty THEN a
    ELSE BBoxOf(Min(a.x0, b.x0), Min(a.y0, b.y0), Max(a.x1, b.x1), Max(a.y1, b.y1))

RECURSIVE BBoxOfPts(_, _)
BBoxOfPts(pts, i) ==
    IF i > Len(pts) THEN EmptyBBox
    ELSE Extend(BBoxOf(pts[i][1], pts[i][2], pts[i][1], pts[i][2]), BBoxOfPts(pts, i + 1))

\* Gis::bbox of a Points geometry
GeomBBox(g) == BBoxOfPts(g.pts, 1)

\* BBox::bounded_by: the two boxes share a point
Overlaps(a, b) ==
    /\ ~a.empty /\ ~b.empty
    /\ a.x0 <= b.x1 /\ a.x1 >= b.x0
    /\ a.y0 <= b.y1 /\ a.y1 >= b.y0

\* twice BBox::x_mid / y_mid (the order of the midpoints is the same)
XMid2(b) == b.x0 + b.x1
YMid2(b) == b.y0 + b.y1

(***************************************************************************)
(* Entry, Node, Root (rosewood/src/node.rs)                                *)
(***************************************************************************)
\* Id::is_valid
IsValid(id) == id = Huge \/ id > 0

\* Entry::default
EntryDefault == [id |-> 0, bbox |-> BBoxOf(0, 0, 0, 0)]

\* an entry test that looks at the id only
EntryValidOnly(entry, bbox) == IsValid(entry.id)

\* Bounded for &Entry
EntryBoundedBy(entry, bbox) == IsValid(entry.id) /\ Overlaps(entry.bbox, bbox)

\* Node::new
NodeNew == [i \in 1..M_NODE |-> EntryDefault]

FreeSlots(node) == {i \in 1..M_NODE : ~IsValid(node[i].id)}

\* Node::push: the first slot without a valid id; a full node panics
NodeFull(node) == FreeSlots(node) = {}

\* a push into the last slot without a valid id
NodePushLast(node, id, bbox) ==
    LET i == CHOOSE k \in FreeSlots(node) : \A j \in FreeSlots(node) : k >= j
    IN  [node EXCEPT ![i] = [id |-> id, bbox |-> bbox]]

NodePush(node, id, bbox) ==
    LET i == CHOOSE k \in FreeSlots(node) : \A j \in FreeSlots(node) : k <= j
    IN  [node EXCEPT ![i] = [id |-> id, bbox |-> bbox]]

\* a bounding box taken from the first slot alone
NodeBBoxFirst(node) == node[1].bbox

\* Node::bbox
RECURSIVE NodeBBoxFrom(_, _)
NodeBBoxFrom(node, i) ==
    IF i > M_NODE THEN EmptyBBox
    ELSE LET rest == NodeBBoxFrom(node, i + 1)
         IN  IF IsValid(node[i].id) THEN Extend(node[i].bbox, rest) ELSE rest

NodeBBox(node) == NodeBBoxFrom(node, 1)

(***************************************************************************)
(* The chunk file as the R-tree layer uses it: the chunks with their ids   *)
(* (byte offsets) and the file length; a chunk is                          *)
(* [id, kind, val, size], size being the serialized length of its payload  *)
(***************************************************************************)
\* serialized sizes under bincode varint encoding
GeomSize(g) == VarintSize(Len(g.pts)) + 8 * Len(g.pts) + 1

RECURSIVE NodeSizeFrom(_, _)
NodeSizeFrom(node, i) ==
    IF i > M_NODE THEN 0
    ELSE VarintSize(node[i].id) + 16 + NodeSizeFrom(node, i + 1)

NodeSize(node) == NodeSizeFrom(node, 1)

RootSize(root) == NodeSize(root.node) + VarintSize(root.n_elem)

\* Writer::new on a path of the build (create, append; header if empty)
TWriterNew(f) ==
    IF f.exists /\ f.len > 0 THEN f
    ELSE [exists |-> TRUE, chunks |-> <<>>, len |-> Len(HEADER)]

\* Writer::push: the chunk goes to the end of the file, its id is the
\* length before
TPush(f, kind, val, size) ==
    [f EXCEPT !.chunks = Append(@, [id |-> f.len, kind |-> kind, val |-> val,
                                    size |-> size]),
              !.len = @ + VarintSize(size) + size + 4]

\* Writer::checkpoint
TCheckpoint(f, id) == TPush(f, "cp", id, 8)

ChunkAt(f, id) == {i \in 1..Len(f.chunks) : f.chunks[i].id = id}

\* the id is one byte into a checkpoint chunk, and the byte there, the low
\* byte of the root id, read as a size places the checksum slice
\* &self.mmap[crcoff..crcoff + CRC_SZ] past the end of the file: of the 13
\* bytes of the chunk, 12 are left from the id on
PastEnd(f, id) ==
    \E i \in 1..Len(f.chunks) :
        /\ f.chunks[i].kind = "cp"
        /\ id = f.chunks[i].id + 1
        /\ f.chunks[i].id + 13 = f.len
        /\ f.chunks[i].val % 256 < 251
        /\ (f.chunks[i].val % 256) + 1 + 4 > 12

\* Reader::lookup::<T>(id) on the file f.  A chunk whose payload takes a
\* size varint of more than one byte fails the checksum test (crcoff is
\* base + dlen + 1), and so does a chunk with a flipped payload bit; bytes
\* that were not written as a T decode unpredictably, except that a Root
\* chunk begins with the bytes of its Node (trailing bytes are allowed).
\* With checksums, a size read inside a chunk can place the slices of the
\* checksum test past the end of the map, and the lookup panics.
TLookup(f, id, type) ==
    IF f.len >= Len(HEADER) + CHECKPOINT_SZ /\ ~IsHugeId(id)
       /\ id >= Len(HEADER) /\ id < f.len
    THEN IF ChunkAt(f, id) = {}
         THEN IF crc /\ PastEnd(f, id) THEN Res("Panic", <<>>)
              ELSE Res("Undecoded", <<>>)
         ELSE LET c == f.chunks[CHOOSE i \in ChunkAt(f, id) : TRUE]
              IN  IF crc /\ (c.size >= 251 \/ c.kind = "damaged")
                  THEN Res("InvalidCrc", <<>>)
                  ELSE IF type = "node" /\ c.kind = "root" THEN Res("Ok", c.val.node)
                  ELSE IF c.kind # type THEN Res("Undecoded", <<>>)
                  ELSE Res("Ok", c.val)
    ELSE Res("InvalidId", <<>>)

\* Reader::root on the file f: the byte-level Root on the tail of the file,
\* which is the checkpoint chunk as Writer::checkpoint wrote it
TRoot(f) ==
    IF f.len < Len(HEADER) + CHECKPOINT_SZ THEN Res("InvalidCheckpoint", <<>>)
    ELSE IF f.chunks = <<>> \/ f.chunks[Len(f.chunks)].kind # "cp"
    THEN Res("Undecoded", <<>>)
    ELSE LET tail == PushBytes(ToLeBytes(f.chunks[Len(f.chunks)].val))
             pad  == [i \in 1..(f.len - Len(tail)) |-> 0]
         IN  Root(pad \o tail)

(***************************************************************************)
(* BulkWriter (rosewood/src/writer.rs)                                     *)
(***************************************************************************)
\* an axis that no height flips
WithHeightKept(axis, height) == axis

\* Axis::with_height
WithHeight(axis, height) ==
    IF height % 2 # 0 THEN axis ELSE IF axis = "X" THEN "Y" ELSE "X"

\* Entry::compare_x / compare_y as a sort key
Key(axis, entry) == IF axis = "X" THEN XMid2(entry.bbox) ELSE YMid2(entry.bbox)

\* sort_unstable_by: entries in key order; entries with equal keys keep
\* their order (ties = "keep") or swap it (ties = "swap"), both of which an
\* unstable sort may produce
RECURSIVE SortInsert(_, _, _, _)
SortInsert(sorted, e, axis, ties) ==
    IF sorted = <<>> THEN <<e>>
    ELSE LET last == sorted[Len(sorted)]
             after == IF ties = "keep" THEN Key(axis, last) <= Key(axis, e)
                      ELSE Key(axis, last) < Key(axis, e)
         IN  IF after THEN Append(sorted, e)
             ELSE Append(SortInsert(SubSeq(sorted, 1, Len(sorted) - 1), e, axis, ties), last)

RECURSIVE SortFrom(_, _, _, _)
SortFrom(elems, i, axis, ties) ==
    IF i = 0 THEN <<>>
    ELSE SortInsert(SortFrom(elems, i - 1, axis, ties), elems[i], axis, ties)

SortBy(elems, axis, ties) == SortFrom(elems, Len(elems), axis, ties)

\* slice::chunks_mut(k): consecutive pieces of k entries, the last one shorter
RECURSIVE ChunksOf(_, _)
ChunksOf(elems, k) ==
    IF elems = <<>> THEN <<>>
    ELSE IF Len(elems) <= k THEN <<elems>>
    ELSE <<SubSeq(elems, 1, k)>> \o ChunksOf(SubSeq(elems, k + 1, Len(elems)), k)

\* the build in progress: the nodes vector, the tmp2 writer's file, the
\* first error (or panic) met, and the index the last call returned
BuildStart(w) == [nodes |-> <<>>, w |-> w, err |-> "none", ret |-> 0]

\* a push_node that returns the length after the push
PushNodeAfter(st, ne) == [st EXCEPT !.nodes = Append(@, ne), !.ret = Len(st.nodes) + 1]

\* BulkWriter::push_node (indices count from 0, as in the code)
PushNode(st, ne) == [st EXCEPT !.nodes = Append(@, ne), !.ret = Len(st.nodes)]

\* BulkWriter::build_leaf: each geometry is read from the staging file and
\* appended to the tree file, its new id goes into the leaf
RECURSIVE LeafFill(_, _, _, _, _)
LeafFill(st, rdr, leaf, elems, i) ==
    IF i > Len(elems) THEN PushNode(st, [leaf |-> TRUE, node |-> leaf, children |-> <<>>])
    ELSE LET geom == TLookup(rdr, elems[i].id, "geom")
         IN  IF geom.kind # "Ok" THEN [st EXCEPT !.err = geom.kind]
             ELSE LET wid == st.w.len
                      w2  == TPush(st.w, "geom", geom.val, GeomSize(geom.val))
                  IN  IF NodeFull(leaf) THEN [st EXCEPT !.w = w2, !.err = "Panic"]
                      ELSE LeafFill([st EXCEPT !.w = w2], rdr,
                                    NodePush(leaf, wid, elems[i].bbox), elems, i + 1)

BuildLeaf(st, rdr, elems) == LeafFill(st, rdr, NodeNew, elems, 1)

\* BulkWriter::build_subtree, with the loop over the chunks
RECURSIVE BuildSubtree(_, _, _, _, _, _)
RECURSIVE SubtreeChunks(_, _, _, _, _, _, _, _)
BuildSubtree(st, rdr, odd_axis, ties, height, elems) ==
    IF height > 1
    THEN LET sorted == SortBy(elems, WithHeight(odd_axis, height), ties)
             done   == SubtreeChunks(st, rdr, odd_axis, ties, height - 1,
                                     ChunksOf(sorted, PartitionSz(height)), 1, <<>>)
         IN  IF done.st.err # "none" THEN done.st
             ELSE PushNode(done.st, [leaf |-> FALSE, node |-> NodeNew,
                                     children |-> done.children])
    ELSE BuildLeaf(st, rdr, elems)

SubtreeChunks(st, rdr, odd_axis, ties, height, chunks, i, children) ==
    IF i > Len(chunks) \/ st.err # "none" THEN [st |-> st, children |-> children]
    ELSE LET sub == BuildSubtree(st, rdr, odd_axis, ties, height, chunks[i])
         IN  SubtreeChunks(sub, rdr, odd_axis, ties, height, chunks, i + 1,
                           Append(children, sub.ret))

\* BulkWriter::build_tree: the root level is split into groups vertical
\* slices, each cut into pieces of n_chunk entries
RECURSIVE TreeSlices(_, _, _, _, _, _, _, _, _)
TreeSlices(st, rdr, odd_axis, ties, height, v_group, v_chunks, i, children) ==
    IF i > Len(v_chunks) \/ st.err # "none" THEN [st |-> st, children |-> children]
    ELSE LET v_chunk == SortBy(v_chunks[i], "Y", ties)
             n_chunk == CeilDiv(Len(v_chunk), v_group)
             done    == SubtreeChunks(st, rdr, odd_axis, ties, height - 1,
                                      ChunksOf(v_chunk, n_chunk), 1, children)
         IN  TreeSlices(done.st, rdr, odd_axis, ties, height, v_group, v_chunks,
                        i + 1, done.children)

BuildTree(st, rdr, ties, elems) ==
    LET n_elems  == Len(elems)
        height   == Height(n_elems)
        odd_axis == WithHeight("Y", height)
    IN  IF height > 1
        THEN LET sorted  == SortBy(elems, "X", ties)
                 groups  == RootGroups(n_elems)
                 n_group == CeilDiv(n_elems, groups)
                 v_group == M_NODE \div groups
                 done    == TreeSlices(st, rdr, odd_axis, ties, height, v_group,
                                       ChunksOf(sorted, n_group), 1, <<>>)
             IN  IF done.st.err # "none" THEN done.st
                 ELSE PushNode(done.st, [leaf |-> FALSE, node |-> NodeNew,
                                         children |-> done.children])
        ELSE BuildLeaf(st, rdr, elems)

\* NodeElem::lookup: a leaf as built; an inner node from the entries of its
\* children, which were written before it
RECURSIVE NodeFromChildren(_, _, _, _)
NodeFromChildren(node, children, node_entries, i) ==
    IF i > Len(children) THEN [node |-> node, err |-> "none"]
    ELSE IF children[i] + 1 > Len(node_entries) \/ NodeFull(node)
    THEN [node |-> node, err |-> "Panic"]
    ELSE LET entry == node_entries[children[i] + 1]
         IN  NodeFromChildren(NodePush(node, entry.id, entry.bbox), children,
                              node_entries, i + 1)

NodeElemLookup(ne, node_entries) ==
    IF ne.leaf THEN [node |-> ne.node, err |-> "none"]
    ELSE NodeFromChildren(NodeNew, ne.children, node_entries, 1)

\* BulkWriter::write_nodes: every node but the last is pushed as a Node, the
\* last one as the Root with the element count; ret is the root's id
RECURSIVE WriteNodesFrom(_, _, _, _)
WriteNodesFrom(st, n_elems, node_entries, i) ==
    LET found == NodeElemLookup(st.nodes[i], node_entries)
    IN  IF found.err # "none" THEN [st EXCEPT !.err = found.err]
        ELSE IF i = Len(st.nodes)
        THEN LET root == [node |-> found.node, n_elem |-> n_elems]
             IN  [st EXCEPT !.w = TPush(st.w, "root", root, RootSize(root)),
                            !.ret = st.w.len]
        ELSE WriteNodesFrom(
                 [st EXCEPT !.w = TPush(st.w, "node", found.node, NodeSize(found.node))],
                 n_elems,
                 Append(node_entries, [id |-> st.w.len, bbox |-> NodeBBox(found.node)]),
                 i + 1)

WriteNodes(st, n_elems) == WriteNodesFrom(st, n_elems, <<>>, 1)

\* PathBuf::set_extension: the extension is replaced, whatever it was
SetExtension(path, ext) == ext

\* a removal that leaves the file
KeepFile(files, path) == files

\* std::fs::remove_file
RemoveFile(files, path) == [files EXCEPT ![path] = NoFile]

\* std::fs::rename: the file moves to the new path and replaces what was
\* there; a rename of a path to itself changes nothing
Rename(files, from, to) ==
    IF from = to THEN files
    ELSE [files EXCEPT ![to] = files[from], ![from] = NoFile]

\* a removal that removes nothing
RemoveTmpFileNot(files, path) == files

\* remove_tmp_file
RemoveTmpFile(files, path) == RemoveFile(files, SetExtension(path, "tmp"))

\* rename_tree
RenameTree(files, path) == Rename(files, SetExtension(path, "tmp2"), path)

\* make_writer(tmp) in BulkWriter::new: Writer::new creates or appends and
\* never reports AlreadyExists, so nothing is removed
MakeWriter(files, path) == [files EXCEPT ![path] = TWriterNew(files[path])]

\* BulkWriter::new(path): the staging writer on <stem>.tmp
BwNew(path) ==
    /\ bw.state = "none"
    /\ fs' = MakeWriter(fs, SetExtension(path, "tmp"))
    /\ bw' = [bw EXCEPT !.state = "open", !.path = path, !.old = fs[path]]
    /\ bres' = [op |-> "new", kind |-> "Ok"]
    /\ UNCHANGED <<q, plan, chunkVars>>

\* BulkWriter::push(geom); bw.geoms remembers what was pushed
BwPush(geom) ==
    /\ bw.state = "open"
    /\ fs' = [fs EXCEPT ![SetExtension(bw.path, "tmp")] =
                            TPush(@, "geom", geom, GeomSize(geom))]
    /\ bw' = [bw EXCEPT !.elems = Append(@, [id |-> fs[SetExtension(bw.path, "tmp")].len,
                                             bbox |-> GeomBBox(geom)]),
                        !.geoms = Append(@, geom)]
    /\ bres' = [op |-> "push", kind |-> "Ok"]
    /\ UNCHANGED <<q, plan, chunkVars>>

\* the steps of BulkWriter::finish at which an I/O error can end it
FailPoints == {"none", "checkpoint_tmp", "open_tmp2", "open_reader", "write_nodes",
               "checkpoint", "remove", "rename"}

\* the steps that come before build_tree
PreBuild == {"checkpoint_tmp", "open_tmp2", "open_reader"}

\* BulkWriter::finish: the staging checkpoint, the tree written to
\* <stem>.tmp2, its checkpoint, the removal of <stem>.tmp and the rename.
\* The `?` after each step returns its error and leaves the files as they
\* are; fail names the step whose I/O fails, if any.
BwFinish(ties, fail) ==
    /\ bw.state = "open"
    /\ \E tmp \in {SetExtension(bw.path, "tmp")}, tmp2 \in {SetExtension(bw.path, "tmp2")} :
       \E f1 \in {[fs EXCEPT ![tmp] = TCheckpoint(@, 0)]} :
       \E f2 \in {[f1 EXCEPT ![tmp2] = TWriterNew(@)]} :
       \E built \in {BuildTree(BuildStart(f2[tmp2]), f2[tmp], ties, bw.elems)} :
       \E written \in {IF built.err = "none" THEN WriteNodes(built, Len(bw.elems))
                        ELSE built} :
       \E f4 \in {[f2 EXCEPT ![tmp2] = written.w]} :
       \E f5 \in {[f4 EXCEPT ![tmp2] = TCheckpoint(@, written.ret)]} :
       \E f6 \in {RemoveTmpFile(f5, bw.path)} :
       \E done \in {IF bw.elems = <<>>
                     THEN [fs |-> RemoveTmpFile(fs, bw.path), kind |-> "InvalidCheckpoint"]
                     ELSE IF fail = "checkpoint_tmp" THEN [fs |-> fs, kind |-> "Io"]
                     ELSE IF fail = "open_tmp2" THEN [fs |-> f1, kind |-> "Io"]
                     ELSE IF fail = "open_reader" THEN [fs |-> f2, kind |-> "Io"]
                     ELSE IF built.err # "none"
                     THEN [fs |-> [f2 EXCEPT ![tmp2] = built.w], kind |-> built.err]
                     ELSE IF fail = "write_nodes"
                     THEN [fs |-> [f2 EXCEPT ![tmp2] = built.w], kind |-> "Io"]
                     ELSE IF written.err # "none" THEN [fs |-> f4, kind |-> written.err]
                     ELSE IF fail = "checkpoint" THEN [fs |-> f4, kind |-> "Io"]
                     ELSE IF fail = "remove" THEN [fs |-> f5, kind |-> "Io"]
                     ELSE IF fail = "rename" THEN [fs |-> f6, kind |-> "Io"]
                     ELSE [fs |-> RenameTree(f6, bw.path), kind |-> "Ok"]} :
           /\ fs' = done.fs
           /\ bw' = [bw EXCEPT !.state = IF done.kind = "Ok" THEN "finished"
                                         ELSE "failed",
                               !.elems = <<>>,
                               !.nodes = IF bw.elems = <<>> \/ fail \in PreBuild
                                         THEN <<>> ELSE built.nodes]
           /\ bres' = [op |-> "finish", kind |-> done.kind]
    /\ UNCHANGED <<q, plan, chunkVars>>

\* BulkWriter::cancel
BwCancel ==
    /\ bw.state = "open"
    /\ fs' = RemoveTmpFile(fs, bw.path)
    /\ bw' = [bw EXCEPT !.state = "cancelled", !.elems = <<>>]
    /\ bres' = [op |-> "cancel", kind |-> "Ok"]
    /\ UNCHANGED <<q, plan, chunkVars>>

(***************************************************************************)
(* RTree and RTreeQuery (rosewood/src/reader.rs)                           *)
(***************************************************************************)
\* every slot of the node goes on the work stack
RECURSIVE PushChildrenAll(_, _, _, _, _)
PushChildrenAll(work, node, bbox, height, i) ==
    IF i > M_NODE THEN work
    ELSE PushChildrenAll(Append(work, [id |-> node[i].id, height |-> height]),
                         node, bbox, height, i + 1)

\* a loop that pushes every bounded entry twice
RECURSIVE PushChildrenTwice(_, _, _, _, _)
PushChildrenTwice(work, node, bbox, height, i) ==
    IF i > M_NODE THEN work
    ELSE PushChildrenTwice(IF EntryBoundedBy(node[i], bbox)
                           THEN work \o <<[id |-> node[i].id, height |-> height],
                                          [id |-> node[i].id, height |-> height]>>
                           ELSE work,
                           node, bbox, height, i + 1)

\* the loop over a node's entries: those bounded by the query box are
\* pushed on the work stack, in slot order
RECURSIVE PushChildren(_, _, _, _, _)
PushChildren(work, node, bbox, height, i) ==
    IF i > M_NODE THEN work
    ELSE PushChildren(IF EntryBoundedBy(node[i], bbox)
                      THEN Append(work, [id |-> node[i].id, height |-> height])
                      ELSE work,
                      node, bbox, height, i + 1)

\* RTree::new(path) and RTree::query(bbox), that is RTreeQuery::new
QNew(bbox) ==
    /\ bw.state = "finished"
    /\ q.state = "none"
    /\ fs[bw.path].exists
    /\ LET id   == TRoot(fs[bw.path])
           root == TLookup(fs[bw.path], id.val, "root")
       IN  q' = IF "Panic" \in {id.kind, root.kind}
                THEN [QIdle EXCEPT !.state = "panic", !.bbox = bbox]
                ELSE IF id.kind # "Ok"
                THEN [QIdle EXCEPT !.state = "open", !.bbox = bbox, !.error = id.kind]
                ELSE IF root.kind # "Ok"
                THEN [QIdle EXCEPT !.state = "open", !.bbox = bbox, !.error = root.kind]
                ELSE [QIdle EXCEPT !.state = "open", !.bbox = bbox,
                                   !.work = PushChildren(<<>>, root.val.node, bbox,
                                                         Height(root.val.n_elem), 1)]
    /\ UNCHANGED <<bw, fs, bres, plan, chunkVars>>

\* the while loop of RTreeQuery::next: nodes are expanded until a geometry
\* lookup or an error gives an item, or the stack is empty
\* an item whose return empties the work stack
YieldLast(work, item) == [work |-> <<>>, item |-> item]

\* return Some(item): the work stack stays as the loop left it
Yield(work, item) == [work |-> work, item |-> item]

RECURSIVE QueryLoop(_, _, _)
QueryLoop(rdr, bbox, work) ==
    IF work = <<>> THEN [work |-> work, item |-> Res("None", <<>>)]
    ELSE LET top  == work[Len(work)]
             rest == SubSeq(work, 1, Len(work) - 1)
         IN  IF top.height > 1
             THEN LET node == TLookup(rdr, top.id, "node")
                  IN  IF node.kind = "Ok"
                      THEN QueryLoop(rdr, bbox,
                                     PushChildren(rest, node.val, bbox, top.height - 1, 1))
                      ELSE Yield(rest, Res(node.kind, <<>>))
             ELSE Yield(rest, TLookup(rdr, top.id, "geom"))

\* an error that stays where it is
ErrorKept(qry) == qry

\* self.error.take()
ErrorTaken(qry) == [qry EXCEPT !.error = "none"]

\* RTreeQuery::next; q.out is what the iterator has yielded.  The iterator
\* may be called again after it has returned None.  A lookup that panics
\* ends the call without a return value (state "panic").
QNext ==
    /\ q.state \in {"open", "done"}
    /\ q.nones < MaxNones
    /\ IF q.error # "none"
       THEN q' = [ErrorTaken(q) EXCEPT !.out = Append(@, Res(q.error, <<>>))]
       ELSE LET step == QueryLoop(fs[bw.path], q.bbox, q.work)
            IN  q' = IF step.item.kind = "Panic"
                     THEN [q EXCEPT !.work = step.work, !.state = "panic"]
                     ELSE IF step.item.kind = "None"
                     THEN [q EXCEPT !.work = step.work, !.state = "done",
                                    !.nones = @ + 1]
                     ELSE [q EXCEPT !.work = step.work, !.out = Append(@, step.item)]
    /\ UNCHANGED <<bw, fs, bres, plan, chunkVars>>

(***************************************************************************)
(* The R-tree specification: one build, one bit flip, then one query       *)
(***************************************************************************)
Point(x, y, data) == [pts |-> <<<<x, y>>>>, data |-> data]

\* a point, and two points that span a box
Geoms == {Point(0, 0, 1), [pts |-> <<<<1, 2>>, <<2, 3>>>>, data |-> 2]}

\* boxes that touch both geometries, the second one only, and neither
QueryBoxes == {BBoxOf(0, 0, 1, 2), BBoxOf(2, 3, 3, 3), BBoxOf(3, 0, 3, 1)}

Ties == {"keep", "swap"}

InitTree ==
    /\ crc \in BOOLEAN
    /\ file = [exists |-> FALSE, bytes |-> <<>>]
    /\ wopen = FALSE
    /\ wres = "none"
    /\ created = FALSE
    /\ pushed = <<>>
    /\ lastop = [op |-> "none", root |-> 0]
    /\ reader = [open |-> FALSE, mmap |-> <<>>]
    /\ rres = [op |-> "none"]
    /\ flip = [done |-> FALSE]
    /\ nops = 0
    /\ bw = BwIdle
    /\ fs = FsInit
    /\ bres = [op |-> "none", kind |-> "Ok"]
    /\ q = QIdle
    /\ plan = PlanIdle

\* one payload bit of a geometry, node or root chunk flips in the finished
\* file before it is opened for a query
FlipChunk(k) ==
    /\ bw.state = "finished"
    /\ q.state = "none"
    /\ fs[bw.path].exists
    /\ k \in 1..Len(fs[bw.path].chunks)
    /\ \A i \in 1..Len(fs[bw.path].chunks) : fs[bw.path].chunks[i].kind # "damaged"
    /\ fs[bw.path].chunks[k].kind \in {"geom", "node", "root"}
    /\ fs' = [fs EXCEPT ![bw.path].chunks[k].kind = "damaged"]
    /\ UNCHANGED <<bw, bres, q, plan, chunkVars>>

NextTree ==
    \/ BwNew("loam")
    \/ \E geom \in Geoms : Len(bw.elems) < MaxGeoms /\ BwPush(geom)
    \/ \E ties \in Ties : BwFinish(ties, "none")
    \/ BwCancel
    \/ \E k \in 1..Len(fs[bw.path].chunks) : FlipChunk(k)
    \/ \E bbox \in QueryBoxes : QNew(bbox)
    \/ QNext

SpecTree == InitTree /\ [][NextTree]_vars

(***************************************************************************)
(* The files of a build: target paths of every extension, files that       *)
(* earlier builds left at the three paths, and I/O errors during finish    *)
(***************************************************************************)
\* the geometry pushed in these builds
BuildGeoms == {Point(0, 0, 1)}

\* <stem>.tmp as a finish that failed after its staging checkpoint leaves
\* it: the pushed geometry and the checkpoint
StaleTmp ==
    LET g == Point(0, 0, 1)
    IN  TCheckpoint(TPush(TWriterNew(NoFile), "geom", g, GeomSize(g)), 0)

\* <stem>.tmp2 as a finish that failed at its last checkpoint leaves it:
\* the geometry and the root, no checkpoint
StaleTmp2 ==
    LET g    == Point(0, 0, 1)
        w    == TPush(TWriterNew(NoFile), "geom", g, GeomSize(g))
        root == [node |-> NodePush(NodeNew, Len(HEADER), GeomBBox(g)), n_elem |-> 1]
    IN  TPush(w, "root", root, RootSize(root))

\* a tree file that an earlier build of one geometry has finished
OldTree == TCheckpoint(StaleTmp2, StaleTmp2.chunks[2].id)

\* what a build can find at the three paths: nothing, a finished tree at
\* one of them, or the staging files of a failed build
BuildFiles ==
    {FsInit,
     [FsInit EXCEPT !.loam = OldTree],
     [FsInit EXCEPT !.tmp = OldTree],
     [FsInit EXCEPT !.tmp2 = OldTree],
     [FsInit EXCEPT !.tmp = StaleTmp, !.tmp2 = StaleTmp2],
     [FsInit EXCEPT !.loam = OldTree, !.tmp = StaleTmp, !.tmp2 = StaleTmp2]}

InitBuild ==
    /\ crc \in BOOLEAN
    /\ file = [exists |-> FALSE, bytes |-> <<>>]
    /\ wopen = FALSE
    /\ wres = "none"
    /\ created = FALSE
    /\ pushed = <<>>
    /\ lastop = [op |-> "none", root |-> 0]
    /\ reader = [open |-> FALSE, mmap |-> <<>>]
    /\ rres = [op |-> "none"]
    /\ flip = [done |-> FALSE]
    /\ nops = 0
    /\ bw = BwIdle
    /\ fs \in BuildFiles
    /\ bres = [op |-> "none", kind |-> "Ok"]
    /\ q = QIdle
    /\ plan = PlanIdle

NextBuild ==
    \/ \E path \in Exts : BwNew(path)
    \/ \E geom \in BuildGeoms : Len(bw.elems) < MaxGeoms /\ BwPush(geom)
    \/ \E ties \in Ties, fail \in FailPoints : BwFinish(ties, fail)
    \/ BwCancel

SpecBuild == InitBuild /\ [][NextBuild]_vars

(***************************************************************************)
(* Builds large enough for inner nodes below the root: the k-th geometry   *)
(* pushed is a point that depends on k                                     *)
(***************************************************************************)
\* points on a 7 by 4 grid, so that midpoints repeat on both axes; every
\* third geometry has a second point
ShapeGeom(k) ==
    LET x == (k * 5) % 7
        y == (k * 3) % 4
    IN  IF k % 3 = 0 THEN [pts |-> <<<<x, y>>, <<x + 1, y + 2>>>>, data |-> k]
        ELSE Point(x, y, k)

InitShape ==
    /\ crc \in BOOLEAN
    /\ file = [exists |-> FALSE, bytes |-> <<>>]
    /\ wopen = FALSE
    /\ wres = "none"
    /\ created = FALSE
    /\ pushed = <<>>
    /\ lastop = [op |-> "none", root |-> 0]
    /\ reader = [open |-> FALSE, mmap |-> <<>>]
    /\ rres = [op |-> "none"]
    /\ flip = [done |-> FALSE]
    /\ nops = 0
    /\ bw = BwIdle
    /\ fs = FsInit
    /\ bres = [op |-> "none", kind |-> "Ok"]
    /\ q = QIdle
    /\ plan = PlanIdle

\* a box that touches every geometry
CraftBoxes == {BBoxOf(0, 0, 7, 5)}

\* boxes that touch every geometry, those near the origin, and none
ShapeBoxes == {BBoxOf(0, 0, 7, 5), BBoxOf(0, 0, 2, 1), BBoxOf(9, 9, 9, 9)}

NextShape ==
    \/ BwNew("loam")
    \/ Len(bw.elems) < MaxShape /\ BwPush(ShapeGeom(Len(bw.elems) + 1))
    \/ \E ties \in Ties : BwFinish(ties, "none")
    \/ BwCancel
    \/ \E bbox \in ShapeBoxes : QNew(bbox)
    \/ QNext

SpecShape == InitShape /\ [][NextShape]_vars

(***************************************************************************)
(* Malformed files: a finished tree file in which one entry of a node has  *)
(* been given another id (with a checksum that fits), then one query       *)
(***************************************************************************)
\* the ids an entry of the node chunk at index k is given: the chunk
\* itself, the root chunk, and the second byte of the checkpoint chunk
CraftIds(f, k) ==
    {f.chunks[k].id} \cup
    {f.chunks[i].id : i \in {j \in 1..Len(f.chunks) : f.chunks[j].kind = "root"}} \cup
    {f.chunks[i].id + 1 : i \in {j \in 1..Len(f.chunks) : f.chunks[j].kind = "cp"}}

\* the first entry of the node or root chunk at index k is given the id
Craft(k, id) ==
    /\ bw.state = "finished"
    /\ q.state = "none"
    /\ ~flip.done
    /\ fs[bw.path].exists
    /\ k \in 1..Len(fs[bw.path].chunks)
    /\ fs[bw.path].chunks[k].kind \in {"node", "root"}
    /\ id \in CraftIds(fs[bw.path], k)
    /\ fs' = IF fs[bw.path].chunks[k].kind = "root"
             THEN [fs EXCEPT ![bw.path].chunks[k].val.node[1].id = id]
             ELSE [fs EXCEPT ![bw.path].chunks[k].val[1].id = id]
    /\ flip' = [done |-> TRUE, chunk |-> k, id |-> id]
    /\ UNCHANGED <<bw, bres, q, plan>>
    /\ UNCHANGED <<crc, file, wopen, wres, created, pushed, lastop, reader, rres, nops>>

NextCraft ==
    \/ BwNew("loam")
    \/ Len(bw.elems) < MaxShape /\ BwPush(ShapeGeom(Len(bw.elems) + 1))
    \/ BwFinish("keep", "none")
    \/ \E k \in 1..Len(fs[bw.path].chunks) :
           \E id \in CraftIds(fs[bw.path], k) : Craft(k, id)
    \/ \E bbox \in CraftBoxes : QNew(bbox)
    \/ QNext

SpecCraft == InitShape /\ [][NextCraft]_vars

(***************************************************************************)
(* The size arithmetic of a build: what build_tree, build_subtree and      *)
(* build_leaf do with the number of elements, whatever the elements are    *)
(***************************************************************************)
\* the lengths of the pieces of slice::chunks_mut(k) on len entries
RECURSIVE ChunkSizes(_, _)
ChunkSizes(len, k) ==
    IF len = 0 THEN <<>>
    ELSE <<Min(len, k)>> \o ChunkSizes(len - Min(len, k), k)

\* build_tree: the loop over the vertical slices, each cut into pieces of
\* n_chunk entries; the result is the lengths of the h_chunks, in order
RECURSIVE SliceSizes(_, _, _)
SliceSizes(v_sizes, v_group, i) ==
    IF i > Len(v_sizes) THEN <<>>
    ELSE LET n_chunk == CeilDiv(v_sizes[i], v_group)
         IN  ChunkSizes(v_sizes[i], n_chunk) \o SliceSizes(v_sizes, v_group, i + 1)

\* build_tree on n_elems entries of height above 1: the lengths of the
\* slices handed to build_subtree, which become the children of the root
RootChildSizes(n_elems, groups) ==
    LET n_group == CeilDiv(n_elems, groups)
        v_group == M_NODE \div groups
    IN  SliceSizes(ChunkSizes(n_elems, n_group), v_group, 1)

\* build_subtree(height, elems) on len entries: no Node::push on a full
\* node, neither in build_leaf nor when write_nodes fills the inner nodes
RECURSIVE SubtreeFits(_, _)
SubtreeFits(height, len) ==
    IF height > 1
    THEN /\ len <= M_NODE * PartitionSz(height)
         /\ LET sizes == ChunkSizes(len, PartitionSz(height))
            IN  \A sz \in {sizes[i] : i \in 1..Len(sizes)} : SubtreeFits(height - 1, sz)
    ELSE len <= M_NODE

\* Node::height(n)
PlanHeight ==
    /\ plan.phase = "input"
    /\ plan' = [plan EXCEPT !.phase = "height", !.height = Height(plan.n)]
    /\ UNCHANGED <<bw, fs, bres, q, chunkVars>>

\* Node::partition_sz(h) at the height found
PlanPartitionSz ==
    /\ plan.phase = "height"
    /\ plan.psz = 0
    /\ plan' = [plan EXCEPT !.psz = PartitionSz(plan.height)]
    /\ UNCHANGED <<bw, fs, bres, q, chunkVars>>

\* Node::root_groups(n)
PlanRootGroups ==
    /\ plan.phase = "height"
    /\ plan' = [plan EXCEPT !.phase = "groups", !.groups = RootGroups(plan.n)]
    /\ UNCHANGED <<bw, fs, bres, q, chunkVars>>

\* build_tree and write_nodes as far as sizes go: the children of the root,
\* whether a Node::push met a full node, and the axis with_height gives for
\* each height under the odd_axis that build_tree chooses
PlanBuild ==
    /\ plan.phase = "groups"
    /\ LET children == IF plan.height > 1 THEN RootChildSizes(plan.n, plan.groups)
                       ELSE <<>>
           fits == IF plan.height > 1
                   THEN /\ Len(children) <= M_NODE
                        /\ \A sz \in {children[i] : i \in 1..Len(children)} :
                               SubtreeFits(plan.height - 1, sz)
                   ELSE plan.n <= M_NODE
           odd_axis == WithHeight("Y", plan.height)
       IN  plan' = [plan EXCEPT !.phase = "built", !.children = children,
                                !.panic = ~fits, !.odd_axis = odd_axis,
                                !.axes = [k \in 1..plan.height |->
                                             WithHeight(odd_axis, k)]]
    /\ UNCHANGED <<bw, fs, bres, q, chunkVars>>

\* element counts around the powers of 6, and the first counts that an f32
\* does not hold
LargeSizes ==
    {Pow(2, 24) - 1, Pow(2, 24), Pow(2, 24) + 1,
     4 * Pow(M_NODE, 9), 4 * Pow(M_NODE, 9) + 1,
     Pow(M_NODE, 10), Pow(M_NODE, 10) + 1, Pow(M_NODE, 11)}

PlanSizes == 1..MaxPlan \cup LargeSizes

InitPlan ==
    /\ crc \in BOOLEAN
    /\ file = [exists |-> FALSE, bytes |-> <<>>]
    /\ wopen = FALSE
    /\ wres = "none"
    /\ created = FALSE
    /\ pushed = <<>>
    /\ lastop = [op |-> "none", root |-> 0]
    /\ reader = [open |-> FALSE, mmap |-> <<>>]
    /\ rres = [op |-> "none"]
    /\ flip = [done |-> FALSE]
    /\ nops = 0
    /\ bw = BwIdle
    /\ fs = FsInit
    /\ bres = [op |-> "none", kind |-> "Ok"]
    /\ q = QIdle
    /\ plan \in {[PlanIdle EXCEPT !.phase = "input", !.n = n] : n \in PlanSizes}

NextPlan ==
    \/ PlanHeight
    \/ PlanPartitionSz
    \/ PlanRootGroups
    \/ PlanBuild

SpecPlan == InitPlan /\ [][NextPlan]_vars

(***************************************************************************)
(* Claims about the chunk file, checked under Spec                         *)
(***************************************************************************)
\* the chunks of the file, as appended and not corrupted since
Chunks == 1..Len(pushed)

\* the Reader holds the file as the Writer left it after a checkpoint
Checkpointed == reader.open /\ ~flip.done /\ lastop.op = "checkpoint"

\* C1 (as claimed): once the file is checkpointed, lookup of an id returned
\* by push, at the type of the pushed value, returns that value - for
\* payloads of every serialized length.
C1_RoundTrip ==
    \A i \in Chunks :
        (/\ Checkpointed /\ rres.op = "lookup"
         /\ rres.id = pushed[i].id /\ rres.n = Len(pushed[i].data))
        => (rres.kind = "Ok" /\ rres.val = pushed[i].data)

\* C2 (as claimed): when the last operation on the file was checkpoint(r),
\* root() of a Reader opened afterwards returns r.
C2_CheckpointRoot ==
    (Checkpointed /\ rres.op = "root")
    => (rres.kind = "Ok" /\ rres.val = lastop.root)

\* C3: the ids returned by successive pushes are strictly increasing, each
\* is the file length before its append (so the chunk's bytes start at that
\* offset), none is below 8, and the first push on a created file returns 8.
C3_IdMonotonic ==
    \A i \in Chunks :
        LET c == pushed[i] IN
        /\ c.id >= 8
        /\ c.id = c.pre
        /\ i > 1 => pushed[i - 1].id < c.id
        /\ c.first => c.id = 8
        /\ ~flip.done =>
              SubSeq(file.bytes, c.id + 1, c.id + Len(PushBytes(c.data)))
                = PushBytes(c.data)

C3_Witness ==
    /\ Len(pushed) >= 2 /\ pushed[1].first /\ ~pushed[1].cp /\ ~pushed[2].cp
    /\ pushed[2].id = 8 + Len(PushBytes(pushed[1].data))

\* C4 (as claimed): lookup fails with InvalidId for every id outside
\* [8, len - CP).
C4_InvalidIdOutsideChunks ==
    (rres.op = "lookup"
     /\ (rres.id < 8 \/ rres.id >= Len(reader.mmap) - CHECKPOINT_SZ))
    => rres.kind = "InvalidId"

\* C4 (amended): lookup fails with InvalidId for every id outside [8, len),
\* and for every id when the file is shorter than 8 + CP.
C4_InvalidIdOutsideFile ==
    (rres.op = "lookup"
     /\ (rres.id < 8 \/ rres.id >= Len(reader.mmap)
         \/ Len(reader.mmap) < 8 + CHECKPOINT_SZ))
    => rres.kind = "InvalidId"

C4_Witness ==
    /\ rres.op = "lookup" /\ rres.id = Len(reader.mmap)
    /\ Len(reader.mmap) >= 8 + CHECKPOINT_SZ
    /\ rres.kind = "InvalidId"

\* the trailing CP bytes of the map are a checkpoint chunk: size prefix 8,
\* and, with checksums, a matching CRC
WellFormedCheckpoint(mmap) ==
    LET len == Len(mmap) IN
    /\ len >= 8 + CHECKPOINT_SZ
    /\ mmap[len - CHECKPOINT_SZ + 1] = 8
    /\ crc => Crc32Le(SubSeq(mmap, len - CHECKPOINT_SZ + 1, len - 4))
                = SubSeq(mmap, len - 3, len)

\* C5 (as claimed): root() fails with InvalidCheckpoint, and nothing else,
\* whenever the file is shorter than 8 + CP or its trailing CP bytes are not
\* a well-formed checkpoint chunk.
C5_RootInvalidCheckpoint ==
    (rres.op = "root" /\ ~WellFormedCheckpoint(reader.mmap))
    => rres.kind = "InvalidCheckpoint"

\* C6 (as claimed): with checksums enabled, after one bit of a chunk (size
\* varint, payload or checksum) has flipped, lookup of that chunk's id
\* fails with InvalidCrc.
C6_CrcDetectsBitFlip ==
    \A i \in Chunks :
        (/\ crc /\ flip.done /\ rres.op = "lookup"
         /\ rres.id = pushed[i].id /\ rres.n = Len(pushed[i].data)
         /\ flip.pos > pushed[i].id
         /\ flip.pos <= pushed[i].id + Len(PushBytes(pushed[i].data)))
        => rres.kind = "InvalidCrc"

\* C7 (as claimed): every file on which Writer::new succeeds begins with
\* the 8 header bytes.
C7_HeaderAfterOpen ==
    wopen => (Len(file.bytes) >= 8 /\ SubSeq(file.bytes, 1, 8) = HEADER)

\* C8: Reader::new on an existing file succeeds exactly when the file has
\* at least 8 bytes and the first 8 are "loam0000"; every other file is
\* rejected with InvalidHeader.
C8_ReaderOpen ==
    (rres.op = "new" /\ rres.seen.exists)
    => LET b     == rres.seen.bytes
           magic == Len(b) >= 8 /\ \A k \in 1..8 : b[k] = HEADER[k]
       IN  /\ rres.kind = "Ok" <=> magic
           /\ rres.kind # "Ok" => rres.kind = "InvalidHeader"

C8_Witness ==
    /\ rres.op = "new" /\ rres.kind = "InvalidHeader"
    /\ Len(rres.seen.bytes) >= 8

\* C9 (as claimed): the chunk that checkpoint appends is exactly
\* CP = 1 + 8 + CRC bytes long, CRC being 4 with checksums and 0 without,
\* so that the Reader's len - CP is the start of the checkpoint chunk.
C9_CheckpointLength ==
    (lastop.op = "checkpoint" /\ ~flip.done)
    => /\ Len(file.bytes) = pushed[Len(pushed)].pre + CHECKPOINT_SZ
       /\ Len(file.bytes) - CHECKPOINT_SZ = pushed[Len(pushed)].id

\* C21: Writer::new on a non-empty file shorter than 8 bytes fails with
\* InvalidHeader and leaves the bytes as they are; on a file of 8 bytes or
\* more it appends nothing and changes nothing; on an absent or empty file
\* it leaves exactly the 8 header bytes.
C21_OpenFrame ==
    [][(~wopen /\ nops' # nops) =>
         LET len == IF file.exists THEN Len(file.bytes) ELSE 0
         IN  /\ (len > 0 /\ len < 8) => (wres' = "InvalidHeader" /\ ~wopen' /\ file' = file)
             /\ len >= 8 => (wres' = "Ok" /\ wopen' /\ file' = file)
             /\ len = 0 => (wres' = "Ok" /\ wopen' /\ file'.exists
                             /\ file'.bytes = HEADER)]_vars

\* a second open, on a file that holds the header and one chunk, has
\* changed nothing
C21_Witness ==
    /\ wopen /\ ~created /\ lastop.op = "new"
    /\ Len(pushed) = 1
    /\ file.bytes = HEADER \o PushBytes(pushed[1].data)

\* C33 (as claimed): for every file content and every id, Reader::lookup
\* returns a decoded value or an error value; it never aborts, also when
\* the size prefix read at the id places the checksum past the end of the
\* file.
C33_LookupReturns == rres.op = "lookup" => rres.kind # "Panic"

(***************************************************************************)
(* Claims about the R-tree, checked under SpecTree                         *)
(***************************************************************************)
\* how often the query has yielded the geometry, and how often it was pushed
TimesYielded(geom) == Cardinality({k \in 1..Len(q.out) : q.out[k] = Res("Ok", geom)})
TimesPushed(geom) == Cardinality({k \in 1..Len(bw.geoms) : bw.geoms[k] = geom})

\* C10 (R-tree completeness): when the query for a box on a bulk-built tree
\* is exhausted, it has yielded every pushed geometry whose bounding box
\* overlaps the box, as often as it was pushed.
C10_QueryComplete ==
    (bw.state = "finished" /\ q.state = "done") =>
        \A i \in 1..Len(bw.geoms) :
            Overlaps(GeomBBox(bw.geoms[i]), q.bbox) =>
                TimesYielded(bw.geoms[i]) >= TimesPushed(bw.geoms[i])

\* C11 (R-tree soundness): every geometry the query has yielded has a
\* bounding box that overlaps the query box.
C11_QuerySound ==
    \A k \in 1..Len(q.out) :
        q.out[k].kind = "Ok" => Overlaps(GeomBBox(q.out[k].val), q.bbox)

\* an exhausted query that yielded a geometry and held back a pushed one
C11_Witness ==
    /\ q.state = "done"
    /\ \E k \in 1..Len(q.out) : q.out[k].kind = "Ok"
    /\ \E i \in 1..Len(bw.geoms) :
           /\ ~Overlaps(GeomBBox(bw.geoms[i]), q.bbox)
           /\ TimesYielded(bw.geoms[i]) = 0

\* C12: the query yields no geometry more often than it was pushed, so each
\* pushed geometry is yielded at most once.
C12_AtMostOnce ==
    \A k \in 1..Len(q.out) :
        q.out[k].kind = "Ok" => TimesYielded(q.out[k].val) <= TimesPushed(q.out[k].val)

\* an exhausted query on a tree of two levels that yielded all seven
\* geometries
C12_Witness ==
    /\ q.state = "done"
    /\ Len(bw.geoms) = 7
    /\ Len(q.out) = 7
    /\ \A k \in 1..Len(q.out) : q.out[k].kind = "Ok"

CeilDivExact(a, b) == (a + b - 1) \div b

\* C20 (as claimed): root_groups(n) is ceil(sqrt(ceil(n / 6^(h(n)-1)))) for
\* every n >= 1, and partition_sz(h) is 6^(h-1).
C20_RootGroups ==
    /\ plan.phase \in {"groups", "built"} =>
           plan.groups = CeilSqrt(CeilDivExact(plan.n, Pow(6, plan.height - 1)))
    /\ plan.psz # 0 => plan.psz = Pow(6, plan.height - 1)

\* C13 (as claimed): for every n >= 1 the build meets no full node: the
\* root gets at most 6 children, each of at least one entry, and every
\* subtree below it fits its height.
C13_FanOut ==
    plan.phase = "built" =>
        /\ ~plan.panic
        /\ Len(plan.children) <= M_NODE
        /\ \A i \in 1..Len(plan.children) : plan.children[i] >= 1

(***************************************************************************)
(* Claims about the files of a build, checked under SpecBuild              *)
(***************************************************************************)
\* the staging paths of the build
TmpPath == SetExtension(bw.path, "tmp")
Tmp2Path == SetExtension(bw.path, "tmp2")

\* the file holds a tree of the geometries pushed: its last chunk is a
\* checkpoint that names a root chunk with their count
HoldsTree(f, geoms) ==
    /\ f.exists
    /\ Len(f.chunks) >= 2
    /\ LET cp == f.chunks[Len(f.chunks)]
       IN  /\ cp.kind = "cp"
           /\ \E i \in 1..Len(f.chunks) :
                  /\ f.chunks[i].id = cp.val
                  /\ f.chunks[i].kind = "root"
                  /\ f.chunks[i].val.n_elem = Len(geoms)

\* C14 (as claimed): after a failed or cancelled build the target path
\* does not exist or holds its pre-build contents; after a successful
\* finish the target holds the new tree and no .tmp staging file remains.
C14_Atomicity ==
    /\ bw.state \in {"failed", "cancelled"} =>
           (~fs[bw.path].exists \/ fs[bw.path] = bw.old)
    /\ bw.state = "finished" =>
           (HoldsTree(fs[bw.path], bw.geoms) /\ ~fs[TmpPath].exists)

\* C15 (as claimed): whatever the target path, the build leaves the file
\* at the target path as it found it until the final rename, and the
\* staging paths differ from the target and from each other.
C15_TargetFrame ==
    bw.state \in {"open", "cancelled", "failed"} =>
        /\ fs[bw.path] = bw.old
        /\ TmpPath # bw.path
        /\ Tmp2Path # bw.path
        /\ TmpPath # Tmp2Path

\* C16 (empty build): finish with no pushed geometry fails with
\* InvalidCheckpoint, leaves no .tmp staging file, and creates neither the
\* .tmp2 file nor the target.
C16_EmptyFinish ==
    [][(bw.state = "open" /\ bw.elems = <<>> /\ bres'.op = "finish")
         => /\ bres'.kind = "InvalidCheckpoint"
            /\ ~fs'[TmpPath].exists
            /\ fs'[Tmp2Path] = fs[Tmp2Path]
            /\ fs'[bw.path].exists => fs[bw.path].exists]_vars

\* an empty build has failed and left no file at any path
C16_Witness ==
    /\ bres.op = "finish" /\ bres.kind = "InvalidCheckpoint"
    /\ bw.state = "failed" /\ bw.geoms = <<>>
    /\ bw.path = "loam"
    /\ fs = FsInit

\* C17 (cancel): after new, any number of pushes and cancel, the .tmp
\* staging file does not exist, and the target does not exist if it did
\* not exist before the build.
C17_Cancel ==
    bw.state = "cancelled" =>
        /\ ~fs[TmpPath].exists
        /\ ~bw.old.exists => ~fs[bw.path].exists

\* a build of five geometries was cancelled, no target before or after
C17_Witness ==
    /\ bw.state = "cancelled" /\ Len(bw.geoms) = 5
    /\ ~bw.old.exists /\ ~fs[bw.path].exists /\ ~fs[TmpPath].exists

\* C18 (as claimed): a finished tree file holds, after the header, the
\* geometry chunks, then the node chunks, then exactly one root chunk, then
\* the checkpoint naming the root, with ids increasing in that order.
C18_Layout ==
    bw.state = "finished" =>
        LET f == fs[bw.path]
            k == Len(f.chunks)
            n == Cardinality({i \in 1..k : f.chunks[i].kind = "geom"})
        IN  /\ k >= n + 2
            /\ n >= 1
            /\ f.chunks[1].id = Len(HEADER)
            /\ \A i \in 1..n : f.chunks[i].kind = "geom"
            /\ \A i \in (n + 1)..(k - 2) : f.chunks[i].kind = "node"
            /\ f.chunks[k - 1].kind = "root"
            /\ f.chunks[k].kind = "cp"
            /\ f.chunks[k].val = f.chunks[k - 1].id
            /\ \A i \in 1..(k - 1) : f.chunks[i].id < f.chunks[i + 1].id

\* the file ends with a root chunk and a checkpoint chunk that names it
EndsAtRoot(f) ==
    LET k == Len(f.chunks)
    IN  /\ k >= 2
        /\ f.chunks[k].kind = "cp"
        /\ f.chunks[k - 1].kind = "root"
        /\ f.chunks[k].val = f.chunks[k - 1].id

\* C34 (as claimed): in finish the .tmp file carries its checkpoint before
\* the tree file is opened and the .tmp file is read, and the tree file
\* carries the checkpoint naming its root before the .tmp file is removed
\* and before the rename; hence whenever the target holds a file other
\* than the one the build found, that file ends with a checkpoint naming
\* its root.
C34_Publication ==
    [][/\ (bw'.state # "none" /\ fs'[bw'.path].exists /\ fs'[bw'.path] # bw'.old)
            => EndsAtRoot(fs'[bw'.path])
       /\ (bw.state = "open" /\ bres'.op = "finish" /\ bw.elems # <<>>) =>
            /\ (fs[TmpPath].exists /\ ~fs'[TmpPath].exists) =>
                   IF fs'[Tmp2Path].exists THEN EndsAtRoot(fs'[Tmp2Path])
                   ELSE EndsAtRoot(fs'[bw.path])
            /\ (fs'[Tmp2Path] # fs[Tmp2Path] /\ fs'[TmpPath].exists) =>
                   LET t == fs'[TmpPath]
                   IN  /\ t.chunks # <<>>
                       /\ t.chunks[Len(t.chunks)].kind = "cp"
                       /\ t.chunks[Len(t.chunks)].val = 0]_vars

\* C35 (as claimed): after BulkWriter::new, and before the first push, the
\* .tmp staging file holds the 8 header bytes and no chunk, also when a
\* .tmp file of an earlier build was there.
C35_FreshStaging ==
    (bw.state = "open" /\ bw.elems = <<>>) =>
        /\ fs[TmpPath].exists
        /\ fs[TmpPath].chunks = <<>>
        /\ fs[TmpPath].len = Len(HEADER)

(***************************************************************************)
(* Claims about the built tree, checked under SpecShape                    *)
(***************************************************************************)
\* the places <<i, j>> where a plan of the nodes vector names the plan at
\* index c (counted from 0) as its child
RefsTo(nodes, c) ==
    {r \in UNION {{<<i, j>> : j \in 1..Len(nodes[i].children)} : i \in 1..Len(nodes)} :
        nodes[r[1]].children[r[2]] = c}

\* C22 (post-order node plan): in the nodes vector that build_tree leaves,
\* every child index of a plan is below the plan's own index, every plan
\* but the last is the child of exactly one plan, and the last plan, the
\* root, is the child of none.
C22_PostOrder ==
    bw.nodes # <<>> =>
        LET nodes == bw.nodes
            k     == Len(nodes)
        IN  /\ \A i \in 1..k : \A j \in 1..Len(nodes[i].children) :
                   nodes[i].children[j] < i - 1
            /\ \A c \in 0..(k - 2) : Cardinality(RefsTo(nodes, c)) = 1
            /\ RefsTo(nodes, k - 1) = {}

\* a finished build whose plan has an inner node below the root
C22_Witness ==
    /\ bw.state = "finished"
    /\ \E i \in 1..(Len(bw.nodes) - 1) : ~bw.nodes[i].leaf

\* the smallest box around the corners given by their coordinates
SetMin(S) == CHOOSE m \in S : \A x \in S : m <= x
SetMax(S) == CHOOSE m \in S : \A x \in S : m >= x
Hull(x0s, y0s, x1s, y1s) == BBoxOf(SetMin(x0s), SetMin(y0s), SetMax(x1s), SetMax(y1s))

\* the box around the points of a geometry
GeomHull(g) ==
    LET xs == {g.pts[i][1] : i \in 1..Len(g.pts)}
        ys == {g.pts[i][2] : i \in 1..Len(g.pts)}
    IN  Hull(xs, ys, xs, ys)

\* the box around the boxes of the valid entries of a node
NodeHull(node) ==
    LET valid == {i \in 1..M_NODE : IsValid(node[i].id)}
    IN  Hull({node[i].bbox.x0 : i \in valid}, {node[i].bbox.y0 : i \in valid},
             {node[i].bbox.x1 : i \in valid}, {node[i].bbox.y1 : i \in valid})

\* the node of a node chunk or of the root chunk
NodeOf(c) == IF c.kind = "root" THEN c.val.node ELSE c.val

\* C23 (bounding-box containment): in the finished file every valid entry
\* of a node names a chunk; when that chunk is a geometry the entry carries
\* the box around its points, when it is a node the entry carries the box
\* around the boxes of that node's valid entries.
C23_BBoxContainment ==
    bw.state = "finished" =>
        LET f == fs[bw.path] IN
        \A i \in 1..Len(f.chunks) :
            f.chunks[i].kind \in {"node", "root"} =>
                \A e \in {NodeOf(f.chunks[i])[j] : j \in 1..M_NODE} :
                    IsValid(e.id) =>
                        \E k \in 1..Len(f.chunks) :
                            LET d == f.chunks[k] IN
                            /\ d.id = e.id
                            /\ \/ d.kind = "geom" /\ e.bbox = GeomHull(d.val)
                               \/ d.kind = "node" /\ e.bbox = NodeHull(d.val)

\* a finished tree of three levels: the root names a node that names a node
C23_Witness ==
    /\ bw.state = "finished"
    /\ LET f == fs[bw.path]
           nodeIds == {f.chunks[j].id : j \in {i \in 1..Len(f.chunks) : f.chunks[i].kind = "node"}}
       IN  \E i \in 1..Len(f.chunks) :
              /\ f.chunks[i].kind = "node"
              /\ f.chunks[i].id \in {f.chunks[Len(f.chunks) - 1].val.node[j].id : j \in 1..M_NODE}
              /\ \E j \in 1..M_NODE : f.chunks[i].val[j].id \in nodeIds

\* the chunks of the file of the given kinds, by index
ChunksOfKind(f, kinds) == {i \in 1..Len(f.chunks) : f.chunks[i].kind \in kinds}

\* the slots <<i, j>> of the nodes of the file that name the chunk with
\* this id
SlotsNaming(f, id) ==
    {r \in ChunksOfKind(f, {"node", "root"}) \X (1..M_NODE) :
        NodeOf(f.chunks[r[1]])[r[2]].id = id}

\* C24 (as claimed): after a successful finish of n pushes the root's
\* n_elem is n, the file holds exactly n geometry chunks, every geometry
\* chunk is named by exactly one slot, and the geometry chunks hold the
\* pushed geometries, each as often as it was pushed.
C24_Conservation ==
    bw.state = "finished" =>
        LET f == fs[bw.path]
            n == Len(bw.geoms)
            geoms == ChunksOfKind(f, {"geom"})
        IN  /\ \A i \in ChunksOfKind(f, {"root"}) : f.chunks[i].val.n_elem = n
            /\ Cardinality(geoms) = n
            /\ \A i \in geoms : Cardinality(SlotsNaming(f, f.chunks[i].id)) = 1
            /\ \A i \in geoms :
                   Cardinality({j \in geoms : f.chunks[j].val = f.chunks[i].val})
                     = TimesPushed(f.chunks[i].val)

\* C25 (as claimed): a push appends one chunk to the .tmp staging file and
\* one entry, the chunk's id with the geometry's box, to the element list;
\* it leaves the node plans empty and changes neither the .tmp2 file nor
\* the target.
C25_PushFrame ==
    [][(bw.state = "open" /\ bres'.op = "push" /\ Len(bw'.geoms) = Len(bw.geoms) + 1)
         => LET geom  == bw'.geoms[Len(bw'.geoms)]
                chunk == fs'[TmpPath].chunks[Len(fs'[TmpPath].chunks)]
            IN  /\ fs'[TmpPath].chunks = Append(fs[TmpPath].chunks, chunk)
                /\ chunk.kind = "geom" /\ chunk.val = geom
                /\ chunk.id = fs[TmpPath].len
                /\ bw'.elems = Append(bw.elems, [id |-> chunk.id, bbox |-> GeomHull(geom)])
                /\ bw'.nodes = <<>>
                /\ fs'[Tmp2Path] = fs[Tmp2Path]
                /\ fs'[bw.path] = fs[bw.path]]_vars

\* the index of the chunk with this id
IdxOf(f, id) == CHOOSE k \in 1..Len(f.chunks) : f.chunks[k].id = id

\* the valid slots of the node chunk at index i
ValidSlots(f, i) == {j \in 1..M_NODE : IsValid(NodeOf(f.chunks[i])[j].id)}

\* the indices of the chunks that the node chunk at index i names
Named(f, i) == {IdxOf(f, NodeOf(f.chunks[i])[j].id) : j \in ValidSlots(f, i)}

\* the node chunk at index i is a leaf: it names geometries
IsLeafChunk(f, i) == \A k \in Named(f, i) : f.chunks[k].kind = "geom"

\* the first node chunk written for the subtree of the node chunk at i
RECURSIVE FirstOf(_, _)
FirstOf(f, i) ==
    IF IsLeafChunk(f, i) THEN i
    ELSE FirstOf(f, IdxOf(f, NodeOf(f.chunks[i])[SetMin(ValidSlots(f, i))].id))

\* C28 (leaf grouping): in the finished file the geometries of one leaf are
\* consecutive chunks with ids that increase with the slot, the node chunks
\* of a subtree are consecutive with the children in slot order and their
\* parent directly after the last child's subtree, and the root is the last
\* node chunk.
C28_LeafGrouping ==
    bw.state = "finished" =>
        LET f == fs[bw.path]
            nodes == ChunksOfKind(f, {"node", "root"})
        IN  /\ \A i \in nodes :
                   LET node == NodeOf(f.chunks[i])
                       slots == ValidSlots(f, i)
                   IN  /\ \A j1, j2 \in slots : j1 < j2 => node[j1].id < node[j2].id
                       /\ IsLeafChunk(f, i) =>
                              SetMax(Named(f, i)) - SetMin(Named(f, i)) + 1
                                = Cardinality(slots)
                       /\ ~IsLeafChunk(f, i) =>
                              \A j \in slots :
                                  LET c == IdxOf(f, node[j].id)
                                      after == IF j = SetMax(slots) THEN i
                                               ELSE FirstOf(f, IdxOf(f, node[j + 1].id))
                                  IN  /\ c \in nodes
                                      /\ j # SetMax(slots) => j + 1 \in slots
                                      /\ c = SetMax({k \in nodes : k < after})
            /\ f.chunks[SetMax(nodes)].kind = "root"

\* a finished tree of three levels whose leaves hold several geometries
C28_Witness ==
    /\ bw.state = "finished"
    /\ LET f == fs[bw.path]
           nodes == ChunksOfKind(f, {"node", "root"})
       IN  /\ \E i \in nodes : IsLeafChunk(f, i) /\ Cardinality(ValidSlots(f, i)) = M_NODE
           /\ \E i \in nodes : ~IsLeafChunk(f, i) /\ f.chunks[i].kind = "node"
                                /\ Cardinality(ValidSlots(f, i)) > 1

(***************************************************************************)
(* Claims about the errors of a query, checked under SpecTree              *)
(***************************************************************************)
\* the error that resolving and decoding the root of the file gives, or
\* "none"
RootError(f) ==
    LET id == TRoot(f)
    IN  IF id.kind # "Ok" THEN id.kind
        ELSE LET root == TLookup(f, id.val, "root")
             IN  IF root.kind # "Ok" THEN root.kind ELSE "none"

\* C29 (deferred error): a query on a file whose root cannot be resolved
\* or decoded yields nothing before that error, yields the error once, and
\* yields nothing after it, however often next is called: no geometry and
\* no second error.
C29_DeferredError ==
    (q.state # "none" /\ RootError(fs[bw.path]) # "none") =>
        \/ q.out = <<>> /\ q.nones = 0
        \/ q.out = <<Res(RootError(fs[bw.path]), <<>>)>>

\* the error was yielded, and next returned None twice after it
C29_Witness ==
    /\ q.state = "done"
    /\ RootError(fs[bw.path]) # "none"
    /\ q.out = <<Res(RootError(fs[bw.path]), <<>>)>>
    /\ q.nones = MaxNones
    /\ bw.geoms # <<>>

\* the chunk of the file with a flipped bit, by index
Damaged(f) == {k \in 1..Len(f.chunks) : f.chunks[k].kind = "damaged"}

\* the entries of a node that a query for the box follows
Followed(node, bbox) ==
    {node[j].id : j \in {i \in 1..M_NODE : IsValid(node[i].id)
                                           /\ Overlaps(node[i].bbox, bbox)}}

\* the ids of the chunks a query for the box looks up below the chunks with
\* the given ids, which stand the given number of levels above the
\* geometries; nothing is looked up below a chunk that does not decode
RECURSIVE Visited(_, _, _, _)
Visited(f, bbox, ids, levels) ==
    IF levels = 0 \/ ids = {} THEN ids
    ELSE ids \cup
         Visited(f, bbox,
                 UNION {Followed(f.chunks[k].val, bbox) :
                           k \in {i \in 1..Len(f.chunks) : /\ f.chunks[i].id \in ids
                                                           /\ f.chunks[i].kind = "node"}},
                 levels - 1)

\* the ids a finished query for the box has looked up in a file whose root
\* decodes
VisitedBelowRoot(f, bbox) ==
    LET root == f.chunks[IdxOf(f, f.chunks[Len(f.chunks)].val)].val
    IN  Visited(f, bbox, Followed(root.node, bbox), Height(root.n_elem) - 1)

\* how often the query has yielded the item
TimesOut(item) == Cardinality({k \in 1..Len(q.out) : q.out[k] = item})

\* C30 (error in place): when one geometry or node chunk below the root
\* fails its checksum, a finished query has yielded one error if it looked
\* that chunk up and none otherwise, and it has yielded every geometry it
\* looked up in an intact chunk, as often as there are such chunks.
C30_ErrorInPlace ==
    LET f == fs[bw.path] IN
    (bw.state = "finished" /\ q.state = "done" /\ Damaged(f) # {}
       /\ RootError(f) = "none") =>
        LET visited == VisitedBelowRoot(f, q.bbox)
            d == f.chunks[CHOOSE k \in Damaged(f) : TRUE]
            intact == {k \in 1..Len(f.chunks) : /\ f.chunks[k].kind = "geom"
                                                /\ f.chunks[k].id \in visited}
        IN  /\ Cardinality({k \in 1..Len(q.out) : q.out[k].kind # "Ok"})
                 = IF d.id \in visited THEN 1 ELSE 0
            /\ d.id \in visited => TimesOut(Res("InvalidCrc", <<>>)) = 1
            /\ \A k \in intact :
                   TimesOut(Res("Ok", f.chunks[k].val))
                     = Cardinality({j \in intact : f.chunks[j].val = f.chunks[k].val})

\* a query met a geometry that fails its checksum, and yielded geometries
\* before and after the error
C30_Witness ==
    /\ bw.state = "finished" /\ q.state = "done"
    /\ Damaged(fs[bw.path]) # {}
    /\ \E k \in 2..(Len(q.out) - 1) :
           /\ q.out[k].kind = "InvalidCrc"
           /\ q.out[k - 1].kind = "Ok"
           /\ q.out[k + 1].kind = "Ok"

\* C31 (work-stack invariant): between the calls of a query over a built
\* tree of height h, every pair on the work stack has a valid id and a
\* height from 1 to h, is named by an entry of a node of the file whose box
\* overlaps the query box, and refers to a geometry chunk when its height
\* is 1 and to a node chunk otherwise.
C31_WorkStack ==
    (bw.state = "finished" /\ q.state # "none") =>
        LET f == fs[bw.path]
            h == Height(Len(bw.geoms))
        IN  \A k \in 1..Len(q.work) :
                LET w == q.work[k] IN
                /\ w.id # 0
                /\ w.height >= 1 /\ w.height <= h
                /\ \E i \in ChunksOfKind(f, {"node", "root"}) :
                       \E j \in 1..M_NODE :
                           /\ NodeOf(f.chunks[i])[j].id = w.id
                           /\ Overlaps(NodeOf(f.chunks[i])[j].bbox, q.bbox)
                /\ \E i \in 1..Len(f.chunks) :
                       /\ f.chunks[i].id = w.id
                       /\ f.chunks[i].kind = IF w.height = 1 THEN "geom" ELSE "node"

\* a query over a tree of three levels with pairs of every height waiting
C31_Witness ==
    /\ bw.state = "finished" /\ q.state = "open"
    /\ Height(Len(bw.geoms)) = 3
    /\ \A h \in 1..3 : \E k \in 1..Len(q.work) : q.work[k].height = h
    /\ q.out # <<>>

(***************************************************************************)
(* Claims about queries on malformed files, checked under SpecCraft        *)
(***************************************************************************)
\* the most items a query can still yield from the work stack: a pair of
\* height k stands for at most 6^(k-1) of them
RECURSIVE Pending(_, _)
Pending(work, i) ==
    IF i > Len(work) THEN 0
    ELSE Pow(M_NODE, work[i].height - 1) + Pending(work, i + 1)

\* the height a query takes from the root chunk of the file
RootHeight(f) == Height(f.chunks[IdxOf(f, f.chunks[Len(f.chunks)].val)].val.n_elem)

\* C32 (as claimed): on any file, also one whose node entries name their
\* own chunk or the root, every call of next returns, and the items
\* yielded so far plus those that the work stack can still give never
\* exceed 6^h, so that None is returned after at most 6^h + 1 calls.
C32_Termination ==
    q.state # "none" =>
        /\ q.state # "panic"
        /\ q.work # <<>> =>
               Len(q.out) + Pending(q.work, 1) <= Pow(M_NODE, RootHeight(fs[bw.path]))

(***************************************************************************)
(* More claims about the size arithmetic, checked under SpecPlan           *)
(***************************************************************************)
\* C26 (axis alternation): with_height gives the stored axis at odd
\* heights and the other axis at even heights, so consecutive heights sort
\* on different axes; under the odd_axis that build_tree chooses for a tree
\* of height h, height h - 1 sorts on X.
C26_AxisAlternation ==
    plan.phase = "built" =>
        LET h == plan.height
            other == IF plan.odd_axis = "X" THEN "Y" ELSE "X"
        IN  /\ Len(plan.axes) = h
            /\ \A k \in 1..h : plan.axes[k] = IF k % 2 = 1 THEN plan.odd_axis ELSE other
            /\ \A k \in 1..(h - 1) : plan.axes[k] # plan.axes[k + 1]
            /\ h > 1 => plan.axes[h - 1] = "X"

\* trees of an even and of an odd height above 2 have been planned
C26_Witness ==
    /\ plan.phase = "built" /\ plan.height = 10
    /\ plan.odd_axis = "X" /\ plan.axes[9] = "X" /\ plan.axes[8] = "Y"

\* a chunk of len entries handed to build_subtree at the height, and every
\* chunk it hands on below, holds between 1 and 6^height entries
RECURSIVE ChunksWithin(_, _)
ChunksWithin(height, len) ==
    /\ len >= 1
    /\ len <= Pow(6, height)
    /\ height > 1 =>
           LET sizes == ChunkSizes(len, Pow(6, height - 1))
           IN  \A sz \in {sizes[i] : i \in 1..Len(sizes)} : ChunksWithin(height - 1, sz)

\* C27 (as claimed): for every n > 6 the split at the root uses 2 or 3
\* groups, gives the root between 2 and 6 children, and hands every
\* subtree of height k, directly below the root or deeper, between 1 and
\* 6^k entries.
C27_RootSplit ==
    (plan.phase = "built" /\ plan.n > 6) =>
        /\ plan.groups \in {2, 3}
        /\ Len(plan.children) >= 2
        /\ Len(plan.children) <= 6
        /\ \A sz \in {plan.children[i] : i \in 1..Len(plan.children)} :
               ChunksWithin(plan.height - 1, sz)

====
